---- MODULE Spec2Model ----
(***************************************************************************)
(* Two-player networked tic-tac-toe (src/jogo.py).                         *)
(*                                                                         *)
(* Each peer is a process running main(): a foreground game loop (event    *)
(* handling, a poll of the inbound queue, a render pass) and one           *)
(* background worker running Network._receive_loop.  The two processes     *)
(* are joined by one TCP connection; stream[p] holds the messages written  *)
(* to p's socket by the remote end that p's worker has not read yet.       *)
(*                                                                         *)
(* Spec            a Host and a Joiner both running main(); either process *)
(*                 may be terminated from outside, which closes its socket *)
(* OpenSpec        one process running main() against an arbitrary remote  *)
(*                 endpoint that stays connected and writes (row, col)     *)
(*                 messages of its choice                                  *)
(* CheckWinnerSpec check_winner called on every 3x3 board                  *)
(*                                                                         *)
(* One game-loop iteration is the events taken from pygame.event.get()     *)
(* (Click, Quit: any number, in any order) followed by Poll.  A sendall of *)
(* one pickled move reaches the remote socket as a whole; a recv may       *)
(* return several of them at once.                                         *)
(***************************************************************************)
EXTENDS Integers, Sequences, FiniteSets, TLC

\* src/jogo.py:11  WIDTH, HEIGHT = 600, 600
WIDTH == 600
HEIGHT == 600

\* Python's None
None == "None"

\* args.server: the process started with --server is the Host
Peers == {"Host", "Joiner"}
is_server(p) == p = "Host"
Other(p) == IF p = "Host" THEN "Joiner" ELSE "Host"

R3 == 0 .. 2
Cells == R3 \X R3

\* Pointer positions a click is sampled from: they reach every cell, lie on
\* both sides of a cell boundary and on both sides of the boundary between
\* the board and the status area.
PixelsX == {199, 200, 400}
PixelsY == {199, 200, 400, HEIGHT - 1, HEIGHT}

\* Number of messages an arbitrary remote endpoint writes in OpenSpec
MaxInject == 3

VARIABLES
    board,        \* board[p][r][c]: main()'s local `board`
    is_my_turn,   \* main()'s local `is_my_turn`
    winner,       \* main()'s local `winner`
    running,      \* main()'s local `running`
    pc,           \* p's main thread: "loop" (inside `while running`),
                  \*   "done" (main returned), "exit" (SystemExit raised),
                  \*   "killed" (process gone), "absent" (no main() behind
                  \*   this end of the connection); "call" and "return"
                  \*   around a lone call of check_winner
    rx,           \* p's _receive_loop worker: "running" or "stopped"
    stream,       \* bytes (whole messages) waiting in p's socket
    queue,        \* net.queue of p
    nsent,        \* number of conn.sendall calls of p that returned
    send_error,   \* p printed "Send error: ..."
    ninj          \* messages written so far by an arbitrary remote endpoint

vars == <<board, is_my_turn, winner, running, pc, rx, stream, queue, nsent,
          send_error, ninj>>

EmptyBoard == [r \in R3 |-> [c \in R3 |-> None]]

\* Mutant of mark: the roles' marks exchanged
mark_Swapped(p) == IF is_server(p) THEN "O" ELSE "X"

\* mark = 'X' if args.server else 'O'
mark(p) == IF is_server(p) THEN "X" ELSE "O"

\* Mutant of opponent_mark: a received move is drawn with the local mark
opponent_mark_Own(p) == IF is_server(p) THEN "X" ELSE "O"

\* 'X' if mark == 'O' else 'O'
opponent_mark(p) == IF mark(p) = "O" THEN "X" ELSE "O"

\* Python truthiness of a cell / of winner: None is falsy, a string is truthy
Truthy(v) == v # None

\* line.count(v)
Count(line, v) == Cardinality({i \in 1 .. Len(line) : line[i] = v})

\* the list `lines` built by check_winner: rows, columns, diag1, diag2
Lines(b) ==
    << <<b[0][0], b[0][1], b[0][2]>>,
       <<b[1][0], b[1][1], b[1][2]>>,
       <<b[2][0], b[2][1], b[2][2]>>,
       <<b[0][0], b[1][0], b[2][0]>>,
       <<b[0][1], b[1][1], b[2][1]>>,
       <<b[0][2], b[1][2], b[2][2]>>,
       <<b[0][0], b[1][1], b[2][2]>>,
       <<b[0][2], b[1][1], b[2][0]>> >>

\* Mutant of check_winner: the full-board test left out
check_winner_NoDraw(b) ==
    LET lines == Lines(b)
        hit == {i \in 1 .. 8 : Truthy(lines[i][1]) /\ Count(lines[i], lines[i][1]) = 3}
        first == CHOOSE i \in hit : \A j \in hit : i <= j
    IN  IF hit # {} THEN lines[first][1]
        ELSE None

\* Mutant of check_winner: only the three rows are looked at
check_winner_RowsOnly(b) ==
    LET lines == Lines(b)
        hit == {i \in 1 .. 3 : Truthy(lines[i][1]) /\ Count(lines[i], lines[i][1]) = 3}
        first == CHOOSE i \in hit : \A j \in hit : i <= j
    IN  IF hit # {} THEN lines[first][1]
        ELSE IF \A r \in R3 : \A c \in R3 : Truthy(b[r][c]) THEN "Draw"
        ELSE None

\* Mutant of check_winner: the full-board test made before the lines
check_winner_DrawFirst(b) ==
    LET lines == Lines(b)
        hit == {i \in 1 .. 8 : Truthy(lines[i][1]) /\ Count(lines[i], lines[i][1]) = 3}
        first == CHOOSE i \in hit : \A j \in hit : i <= j
    IN  IF \A r \in R3 : \A c \in R3 : Truthy(b[r][c]) THEN "Draw"
        ELSE IF hit # {} THEN lines[first][1]
        ELSE None

check_winner(b) ==
    LET lines == Lines(b)
        hit == {i \in 1 .. 8 : Truthy(lines[i][1]) /\ Count(lines[i], lines[i][1]) = 3}
        first == CHOOSE i \in hit : \A j \in hit : i <= j
    IN  IF hit # {} THEN lines[first][1]
        ELSE IF \A r \in R3 : \A c \in R3 : Truthy(b[r][c]) THEN "Draw"
        ELSE None

\* The process behind p's socket has gone: it was terminated from outside,
\* or its main thread ended and its worker thread is no longer running.
Closed(p) ==
    \/ pc[p] = "killed"
    \/ pc[p] \in {"done", "exit"} /\ rx[p] = "stopped"

Init ==
    /\ board = [p \in Peers |-> EmptyBoard]
    /\ is_my_turn = [p \in Peers |-> is_server(p)]
    /\ winner = [p \in Peers |-> None]
    /\ running = [p \in Peers |-> TRUE]
    /\ pc = [p \in Peers |-> "loop"]
    /\ rx = [p \in Peers |-> "running"]
    /\ stream = [p \in Peers |-> <<>>]
    /\ queue = [p \in Peers |-> <<>>]
    /\ nsent = [p \in Peers |-> 0]
    /\ send_error = [p \in Peers |-> FALSE]
    /\ ninj = 0

\* row, col = y // (HEIGHT//3), x // (WIDTH//3)
RowOf(y) == y \div (HEIGHT \div 3)
ColOf(x) == x \div (WIDTH \div 3)

\* Mutant of ClickMoves: the test `board[row][col] is None` left out
ClickMoves_NoEmptyTest(p, x, y) ==
    /\ is_my_turn[p]
    /\ winner[p] = None
    /\ y < HEIGHT

\* Mutant of ClickMoves: the test `is_my_turn` left out
ClickMoves_NoTurnTest(p, x, y) ==
    /\ winner[p] = None
    /\ y < HEIGHT
    /\ board[p][RowOf(y)][ColOf(x)] = None

\* Mutant of ClickMoves: the test `winner is None` left out
ClickMoves_NoWinnerTest(p, x, y) ==
    /\ is_my_turn[p]
    /\ y < HEIGHT
    /\ board[p][RowOf(y)][ColOf(x)] = None

\* the conditions of lines 180, 182 and 184 under which a click is a move
ClickMoves(p, x, y) ==
    /\ is_my_turn[p]
    /\ winner[p] = None
    /\ y < HEIGHT
    /\ board[p][RowOf(y)][ColOf(x)] = None

\* Mutant of Move: the coordinates in the wrong order
Move_Swapped(row, col) == <<col, row>>

\* the tuple (row, col) handed to net.send
Move(row, col) == <<row, col>>

\* pickle.dumps(data): one self-delimited pickle holding data
pickle_dumps(data) == <<"pickle", data>>

\* pickle.loads(packet): the object of the first pickle of the packet;
\* whatever follows its STOP opcode is ignored
pickle_loads(packet) == packet[1][2]

\* conn.sendall(packet) returned: the message is in the remote socket,
\* unless the remote end is gone (then the bytes are dropped)
Sendall(p, packet) ==
    /\ stream' = IF pc[Other(p)] # "absent" /\ ~Closed(Other(p))
                 THEN [stream EXCEPT ![Other(p)] = Append(@, packet)]
                 ELSE stream
    /\ nsent' = [nsent EXCEPT ![p] = @ + 1]

\* Mutant of SendError: the error is printed and send returns
SendError_NoExit(p) ==
    /\ send_error' = [send_error EXCEPT ![p] = TRUE]
    /\ UNCHANGED pc

\* Network.send's except branch: print("Send error: ..."), sys.exit(1).
\* SystemExit is raised in the main thread and main() catches nothing.
SendError(p) ==
    /\ send_error' = [send_error EXCEPT ![p] = TRUE]
    /\ pc' = [pc EXCEPT ![p] = "exit"]

\* One MOUSEBUTTONDOWN event taken from pygame.event.get(), pointer at (x, y).
\* The cell is written before net.send; the two statements after net.send
\* run when it returns.
Click(p, x, y) ==
    /\ pc[p] = "loop"
    /\ IF ClickMoves(p, x, y)
       THEN LET row == RowOf(y)
                col == ColOf(x)
                b2 == [board[p] EXCEPT ![row][col] = mark(p)]
            IN  \/ /\ board' = [board EXCEPT ![p] = b2]
                   /\ Sendall(p, pickle_dumps(Move(row, col)))
                   /\ is_my_turn' = [is_my_turn EXCEPT ![p] = FALSE]
                   /\ winner' = [winner EXCEPT ![p] = check_winner(b2)]
                   /\ UNCHANGED <<running, pc, rx, queue, send_error, ninj>>
                \/ \* sendall raises: the remote end is gone
                   /\ Closed(Other(p))
                   /\ board' = [board EXCEPT ![p] = b2]
                   /\ SendError(p)
                   /\ IF pc'[p] = "exit"
                      THEN UNCHANGED <<is_my_turn, winner>>
                      ELSE /\ is_my_turn' = [is_my_turn EXCEPT ![p] = FALSE]
                           /\ winner' = [winner EXCEPT ![p] = check_winner(b2)]
                   /\ UNCHANGED <<running, rx, stream, queue, nsent, ninj>>
       ELSE UNCHANGED vars

\* One pygame.QUIT event taken from pygame.event.get()
Quit(p) ==
    /\ pc[p] = "loop"
    /\ running' = [running EXCEPT ![p] = FALSE]
    /\ UNCHANGED <<board, is_my_turn, winner, pc, rx, stream, queue, nsent,
                   send_error, ninj>>

\* Mutant of ReceiveReturns: queue.get without a timeout waits for a message
ReceiveReturns_NoTimeout(q) == q # <<>>

\* Network.receive: queue.get(timeout=0.01) comes back within the timeout,
\* whatever the queue holds
ReceiveReturns(q) == TRUE

\* Network.receive's result: the head of the queue, None when queue.get
\* raised Empty
receive(q) == IF q = <<>> THEN None ELSE Head(q)

\* Mutant of AcceptsMove: the turn test inverted
AcceptsMove_WrongTurn(p, data) ==
    /\ data # None
    /\ is_my_turn[p]
    /\ winner[p] = None

\* Mutant of AcceptsMove: the test `winner is None` left out
AcceptsMove_NoWinnerTest(p, data) ==
    /\ data # None
    /\ ~is_my_turn[p]

\* line 193: data and not is_my_turn and winner is None
\* (a received pair is a non-empty tuple, hence truthy)
AcceptsMove(p, data) ==
    /\ data # None
    /\ ~is_my_turn[p]
    /\ winner[p] = None

\* The rest of an iteration once the event list is exhausted:
\* data = net.receive(timeout=0.01), the received-move branch, the render
\* pass and the `while running` test; when that fails, pygame.quit() and
\* main() returns.
Poll(p) ==
    /\ pc[p] = "loop"
    /\ ReceiveReturns(queue[p])
    /\ LET data == receive(queue[p])
       IN  /\ queue' = [queue EXCEPT ![p] = IF @ = <<>> THEN @ ELSE Tail(@)]
           /\ IF AcceptsMove(p, data)
              THEN LET b2 == [board[p] EXCEPT ![data[1]][data[2]] = opponent_mark(p)]
                   IN  /\ board' = [board EXCEPT ![p] = b2]
                       /\ is_my_turn' = [is_my_turn EXCEPT ![p] = TRUE]
                       /\ winner' = [winner EXCEPT ![p] = check_winner(b2)]
              ELSE UNCHANGED <<board, is_my_turn, winner>>
    /\ pc' = [pc EXCEPT ![p] = IF running[p] THEN "loop" ELSE "done"]
    /\ UNCHANGED <<running, rx, stream, nsent, send_error, ninj>>

\* One iteration of _receive_loop.  recv returns the first k messages that
\* are waiting; pickle.loads decodes the first object of the packet and
\* ignores the rest.  With nothing waiting recv blocks, unless the remote
\* end is gone: then it returns b'' (or raises), the loop breaks and
\* sys.exit(1) raises SystemExit inside the worker thread only.
ReceiveLoop(p) ==
    /\ rx[p] = "running"
    /\ pc[p] \notin {"killed", "absent"}
    /\ IF stream[p] # <<>>
       THEN \E k \in 1 .. Len(stream[p]) :
              /\ queue' = [queue EXCEPT ![p] =
                             Append(@, pickle_loads(SubSeq(stream[p], 1, k)))]
              /\ stream' = [stream EXCEPT ![p] = SubSeq(@, k + 1, Len(@))]
              /\ UNCHANGED rx
       ELSE /\ Closed(Other(p))
            /\ rx' = [rx EXCEPT ![p] = "stopped"]
            /\ UNCHANGED <<queue, stream>>
    /\ UNCHANGED <<board, is_my_turn, winner, running, pc, nsent, send_error, ninj>>

\* The process of p is terminated from outside (it is killed, its terminal
\* is closed), or an arbitrary remote endpoint closes its socket.  Nothing
\* of the process is left: its entries go back to their initial values and
\* its socket is closed.
Kill(p) ==
    /\ pc[p] # "killed"
    /\ pc' = [pc EXCEPT ![p] = "killed"]
    /\ rx' = [rx EXCEPT ![p] = "stopped"]
    /\ board' = [board EXCEPT ![p] = EmptyBoard]
    /\ is_my_turn' = [is_my_turn EXCEPT ![p] = is_server(p)]
    /\ winner' = [winner EXCEPT ![p] = None]
    /\ running' = [running EXCEPT ![p] = TRUE]
    /\ stream' = [stream EXCEPT ![p] = <<>>]
    /\ queue' = [queue EXCEPT ![p] = <<>>]
    /\ nsent' = [nsent EXCEPT ![p] = 0]
    /\ send_error' = [send_error EXCEPT ![p] = FALSE]
    /\ UNCHANGED ninj

Next ==
    \/ \E p \in Peers : \E x \in PixelsX : \E y \in PixelsY : Click(p, x, y)
    \/ \E p \in Peers : Quit(p)
    \/ \E p \in Peers : Poll(p)
    \/ \E p \in Peers : ReceiveLoop(p)
    \/ \E p \in Peers : Kill(p)

Spec == Init /\ [][Next]_vars

\* One process running main() whose connection leads to an arbitrary remote
\* endpoint (Network accepts whatever connects to PORT): the remote end
\* writes well-formed (row, col) messages of its own choice.
InitOpen ==
    /\ board = [p \in Peers |-> EmptyBoard]
    /\ is_my_turn = [p \in Peers |-> is_server(p)]
    /\ winner = [p \in Peers |-> None]
    /\ running = [p \in Peers |-> TRUE]
    /\ \E me \in Peers :
          /\ pc = [p \in Peers |-> IF p = me THEN "loop" ELSE "absent"]
          /\ rx = [p \in Peers |-> IF p = me THEN "running" ELSE "stopped"]
    /\ stream = [p \in Peers |-> <<>>]
    /\ queue = [p \in Peers |-> <<>>]
    /\ nsent = [p \in Peers |-> 0]
    /\ send_error = [p \in Peers |-> FALSE]
    /\ ninj = 0

\* The remote endpoint of p writes the message (r, c) to the connection,
\* once its previous message has been taken from p's queue.
Inject(p, r, c) ==
    /\ pc[Other(p)] = "absent"
    /\ ninj < MaxInject
    /\ stream[p] = <<>>
    /\ queue[p] = <<>>
    /\ ninj' = ninj + 1
    /\ stream' = [stream EXCEPT ![p] = Append(@, pickle_dumps(<<r, c>>))]
    /\ UNCHANGED <<board, is_my_turn, winner, running, pc, rx, queue, nsent,
                   send_error>>

NextOpen ==
    \/ \E p \in Peers : \E x \in PixelsX : \E y \in PixelsY : Click(p, x, y)
    \/ \E p \in Peers : Poll(p)
    \/ \E p \in Peers : ReceiveLoop(p)
    \/ \E p \in Peers : \E r \in R3 : \E c \in R3 : Inject(p, r, c)

OpenSpec == InitOpen /\ [][NextOpen]_vars

\* check_winner called on an arbitrary 3x3 board over {None, 'X', 'O'}
AllBoards == [R3 -> [R3 -> {None, "X", "O"}]]

InitCheckWinner ==
    /\ \E b \in AllBoards : board = [p \in Peers |-> b]
    /\ is_my_turn = [p \in Peers |-> is_server(p)]
    /\ winner = [p \in Peers |-> None]
    /\ running = [p \in Peers |-> TRUE]
    /\ pc = [p \in Peers |-> "call"]
    /\ rx = [p \in Peers |-> "stopped"]
    /\ stream = [p \in Peers |-> <<>>]
    /\ queue = [p \in Peers |-> <<>>]
    /\ nsent = [p \in Peers |-> 0]
    /\ send_error = [p \in Peers |-> FALSE]
    /\ ninj = 0

\* winner = check_winner(board)
CallCheckWinner(p) ==
    /\ pc[p] = "call"
    /\ winner' = [winner EXCEPT ![p] = check_winner(board[p])]
    /\ pc' = [pc EXCEPT ![p] = "return"]
    /\ UNCHANGED <<board, is_my_turn, running, rx, stream, queue, nsent,
                   send_error, ninj>>

NextCheckWinner == \E p \in Peers : CallCheckWinner(p)

CheckWinnerSpec == InitCheckWinner /\ [][NextCheckWinner]_vars

\* A Host and a Joiner playing over a connection that stays up: neither
\* window is closed and neither process is terminated.
NextPlay ==
    \/ \E p \in Peers : \E x \in PixelsX : \E y \in PixelsY : Click(p, x, y)
    \/ \E p \in Peers : Poll(p)
    \/ \E p \in Peers : ReceiveLoop(p)

\* a click of p's user that is a move (any other click changes nothing)
Clicks(p) == \E x \in PixelsX : \E y \in PixelsY : Click(p, x, y)

\* The game loop keeps iterating (each iteration polls the queue), the
\* worker thread's recv returns when bytes are waiting, and the user whose
\* turn it is eventually clicks an empty cell.
Fairness ==
    \A p \in Peers :
        /\ WF_vars(Poll(p))
        /\ WF_vars(ReceiveLoop(p))
        /\ WF_vars(Clicks(p))

FairSpec == Init /\ [][NextPlay]_vars /\ Fairness

(***************************************************************************)
(* Properties                                                              *)
(***************************************************************************)

\* the cells of board b that hold a mark
Marked(b) == {rc \in Cells : b[rc[1]][rc[2]] # None}
\* the cells of board b that hold mark m
Holding(b, m) == {rc \in Cells : b[rc[1]][rc[2]] = m}
\* the step writes exactly cell rc of p's board, with mark m
Writes(p, rc, m) == board'[p] = [board[p] EXCEPT ![rc[1]][rc[2]] = m]

\* p's process exists after the step (a killed process has no state)
Survives(p) == pc'[p] # "killed"

\* C1: cells are write-once.  In every step of a Host and a Joiner both
\* running main(), a cell of a peer's board that holds 'X' or 'O' holds the
\* same mark afterwards, for as long as the peer's process exists.
C1_WriteOnce ==
    [][\A p \in Peers : board'[p] # board[p] /\ Survives(p) =>
          \A rc \in Marked(board[p]) :
              board'[p][rc[1]][rc[2]] = board[p][rc[1]][rc[2]]]_vars

\* C1 witness: a peer's board holds marks written by both paths (local
\* clicks and received moves), the later ones written while the earlier
\* ones were already there.
C1_Witness ==
    \E p \in Peers :
        /\ Cardinality(Holding(board[p], mark(p))) >= 2
        /\ Cardinality(Holding(board[p], opponent_mark(p))) >= 2

\* the mark the k-th move of a game carries
KthMark(k) == IF k % 2 = 1 THEN "X" ELSE "O"

\* C2: the turn alternates, starting with the Host's mark.  On every
\* peer's board the k-th mark placed is 'X' for odd k and 'O' for even k,
\* placed in an empty cell; is_my_turn starts TRUE at the Host and FALSE at
\* the Joiner and toggles exactly once per move applied (it changes in a
\* step iff the board does), for as long as the peer's main thread lives
\* (the step in which sendall raises ends the process between the write of
\* the cell and the flip of the flag).
C2_TurnAlternates ==
    [][\A p \in Peers : Survives(p) =>
          /\ Marked(board[p]) = {} => is_my_turn[p] = is_server(p)
          /\ board'[p] # board[p] =>
                /\ \E rc \in Cells \ Marked(board[p]) :
                      Writes(p, rc, KthMark(Cardinality(Marked(board[p])) + 1))
                /\ pc'[p] # "exit" => is_my_turn'[p] = ~is_my_turn[p]
          /\ is_my_turn'[p] # is_my_turn[p] => board'[p] # board[p]]_vars

\* C2 witness: four moves have been applied to a peer's board, two of each
\* mark, and it is the Host's turn again on its board.
C2_Witness ==
    /\ Cardinality(Holding(board["Host"], "X")) = 2
    /\ Cardinality(Holding(board["Host"], "O")) = 2
    /\ is_my_turn["Host"]
    /\ ~is_my_turn["Joiner"]

\* C3: GameOver is one-way.  Once a peer's winner is not None, no step
\* changes its board or its winner or sends a message, whatever is clicked
\* and whatever an arbitrary remote endpoint makes it dequeue.
C3_GameOverOneWay ==
    [][\A p \in Peers : winner[p] # None =>
          /\ board'[p] = board[p]
          /\ winner'[p] = winner[p]
          /\ nsent'[p] = nsent[p]
          /\ stream'[Other(p)] = stream[Other(p)]]_vars

\* C3 witness: the game is over at a peer whose loop is running and whose
\* queue holds a message that the next poll dequeues.
C3_Witness ==
    \E p \in Peers :
        /\ winner[p] # None
        /\ pc[p] = "loop"
        /\ queue[p] # <<>>

\* C4: a stopped receive task is fatal.  Once _receive_loop of a living
\* process has stopped, no step applies a move to that peer's board and no
\* step sends a message from it.
C4_ReceiveStopFatal ==
    [][\A p \in Peers : rx[p] = "stopped" /\ pc[p] # "killed" /\ Survives(p) =>
          /\ board'[p] = board[p]
          /\ nsent'[p] = nsent[p]]_vars

\* C5: applying a received move never changes a marked cell.  In every
\* step that dequeues a message while the peer is in OpponentTurn with the
\* game in progress, the marked cells of its board keep their marks.
C5_ReceivedMoveKeepsMarks ==
    [][\A p \in Peers :
          (/\ queue[p] # <<>>
           /\ queue'[p] = Tail(queue[p])
           /\ ~is_my_turn[p]
           /\ winner[p] = None) =>
          \A rc \in Marked(board[p]) :
              board'[p][rc[1]][rc[2]] = board[p][rc[1]][rc[2]]]_vars

\* C6: a successful local move (a click in MyTurn on an empty cell, game in
\* progress, sendall returning) writes the local mark into the clicked
\* cell, sends exactly one message carrying that (row, col) and leaves the
\* peer in OpponentTurn or GameOver; and every step in which a peer sends
\* writes one empty cell of its board with its mark and sends that cell.
C6_LocalMove ==
    [][\A p \in Peers : nsent'[p] # nsent[p] \/ board'[p] # board[p] =>
          /\ \A x \in PixelsX : \A y \in PixelsY :
                ClickMoves(p, x, y) /\ Click(p, x, y) /\ ~send_error'[p] =>
                    /\ Writes(p, <<RowOf(y), ColOf(x)>>, mark(p))
                    /\ nsent'[p] = nsent[p] + 1
                    /\ ~Closed(Other(p)) =>
                          stream'[Other(p)] =
                              Append(stream[Other(p)],
                                     pickle_dumps(<<RowOf(y), ColOf(x)>>))
                    /\ ~is_my_turn'[p] \/ winner'[p] # None
          /\ nsent'[p] # nsent[p] /\ Survives(p) =>
                \E rc \in Cells \ Marked(board[p]) :
                    /\ Writes(p, rc, mark(p))
                    /\ nsent'[p] = nsent[p] + 1
                    /\ stream'[Other(p)] # stream[Other(p)] =>
                          stream'[Other(p)] =
                              Append(stream[Other(p)], pickle_dumps(rc))]_vars

\* C6 witness: the Host has made a move whose message, naming a cell off
\* the diagonal that now holds the Host's mark, is in the Joiner's socket,
\* and the Host is in OpponentTurn.
C6_Witness ==
    /\ nsent["Host"] >= 1
    /\ ~is_my_turn["Host"]
    /\ \E rc \in Cells :
          /\ rc[1] # rc[2]
          /\ stream["Joiner"] = <<pickle_dumps(rc)>>
          /\ board["Host"][rc[1]][rc[2]] = mark("Host")
          /\ board["Joiner"][rc[1]][rc[2]] = None

\* the click at (x, y) is illegal at p: not p's turn, or in the status
\* area below the board, or on a marked cell
IllegalClick(p, x, y) ==
    \/ ~is_my_turn[p]
    \/ y >= HEIGHT
    \/ board[p][RowOf(y)][ColOf(x)] # None

\* C7: an illegal local click has no effect.  Wherever the loop handles a
\* click while it is not the peer's turn, or on a marked cell, or in the
\* status area, the click is handled and every way of handling it leaves
\* board, is_my_turn, winner unchanged and sends nothing.
C7_IllegalClickNoEffect ==
    \A p \in Peers : \A x \in PixelsX : \A y \in PixelsY :
        pc[p] = "loop" /\ IllegalClick(p, x, y) =>
            /\ ENABLED Click(p, x, y)
            /\ ~ENABLED (/\ Click(p, x, y)
                         /\ ~UNCHANGED <<board, is_my_turn, winner, nsent,
                                         stream, send_error>>)

\* C7 witness: a peer's loop is running with the game in progress, it is
\* not its turn and its board holds a mark, so that clicks of all three
\* illegal kinds are handled there.
C7_Witness ==
    \E p \in Peers :
        /\ pc[p] = "loop"
        /\ ~is_my_turn[p]
        /\ winner[p] = None
        /\ Marked(board[p]) # {}
        /\ \E x \in PixelsX : \E y \in PixelsY :
              y < HEIGHT /\ board[p][RowOf(y)][ColOf(x)] = None

\* the eight lines in the order rows 0-2, columns 0-2, main diagonal,
\* anti-diagonal, as cell coordinates
RefLines ==
    << << <<0, 0>>, <<0, 1>>, <<0, 2>> >>,
       << <<1, 0>>, <<1, 1>>, <<1, 2>> >>,
       << <<2, 0>>, <<2, 1>>, <<2, 2>> >>,
       << <<0, 0>>, <<1, 0>>, <<2, 0>> >>,
       << <<0, 1>>, <<1, 1>>, <<2, 1>> >>,
       << <<0, 2>>, <<1, 2>>, <<2, 2>> >>,
       << <<0, 0>>, <<1, 1>>, <<2, 2>> >>,
       << <<0, 2>>, <<1, 1>>, <<2, 0>> >> >>
At(b, rc) == b[rc[1]][rc[2]]
\* line i of board b holds three equal marks
Complete(b, i) ==
    /\ At(b, RefLines[i][1]) # None
    /\ At(b, RefLines[i][2]) = At(b, RefLines[i][1])
    /\ At(b, RefLines[i][3]) = At(b, RefLines[i][1])
\* the reference outcome of board b
RefOutcome(b) ==
    IF \E i \in 1 .. 8 : Complete(b, i)
    THEN LET i == CHOOSE i \in 1 .. 8 :
                      Complete(b, i) /\ \A j \in 1 .. (i - 1) : ~Complete(b, j)
         IN  At(b, RefLines[i][1])
    ELSE IF Marked(b) = Cells THEN "Draw" ELSE None
RowZeroX == [r \in R3 |-> [c \in R3 |-> IF r = 0 THEN "X" ELSE None]]

\* C8: check_winner agrees with the reference outcome on every 3x3 board
\* over {None, 'X', 'O'}: the mark of the first complete line in the order
\* rows, columns, main diagonal, anti-diagonal; else 'Draw' on a full board;
\* else None.  The empty board gives None, row 0 = X,X,X alone gives 'X', a
\* full board without a complete line gives 'Draw' and a full board with a
\* complete line gives the mark of a line, not 'Draw'.
C8_CheckWinner ==
    \A p \in Peers : pc[p] = "return" =>
        /\ winner[p] = RefOutcome(board[p])
        /\ board[p] = EmptyBoard => winner[p] = None
        /\ board[p] = RowZeroX => winner[p] = "X"
        /\ Marked(board[p]) = Cells =>
              IF \E i \in 1 .. 8 : Complete(board[p], i)
              THEN winner[p] \in {"X", "O"}
              ELSE winner[p] = "Draw"

\* C8 witness: check_winner has returned the mark of a line on a full
\* board on which lines of both marks are complete.
C8_Witness ==
    \E p \in Peers :
        /\ pc[p] = "return"
        /\ Marked(board[p]) = Cells
        /\ winner[p] = "O"
        /\ \E i \in 1 .. 8 : Complete(board[p], i) /\ At(board[p], RefLines[i][1]) = "X"

\* C9: receive on an empty queue returns None and changes nothing.
\* Wherever the loop polls an empty queue, receive gives None, the rest of
\* the iteration can run, and every way it runs leaves board, is_my_turn,
\* winner and the queue unchanged, sends nothing and completes the
\* iteration (render, then the loop test decided by `running` alone).
C9_EmptyPoll ==
    \A p \in Peers : pc[p] = "loop" /\ queue[p] = <<>> =>
        /\ receive(queue[p]) = None
        /\ ENABLED Poll(p)
        /\ ~ENABLED (/\ Poll(p)
                     /\ ~(/\ UNCHANGED <<board, is_my_turn, winner, queue,
                                         nsent, stream, send_error, running>>
                          /\ pc'[p] = IF running[p] THEN "loop" ELSE "done"))

\* C9 witness: the Host is alive and has never sent, and the Joiner's loop
\* has completed its iterations (the last one after a QUIT) polling a
\* queue that was empty every time.
C9_Witness ==
    /\ pc["Host"] = "loop"
    /\ nsent["Host"] = 0
    /\ pc["Joiner"] = "done"
    /\ board["Joiner"] = EmptyBoard
    /\ queue["Joiner"] = <<>>

\* C10: a send failure is fatal.  Once a peer has reported a send error
\* its main thread has been ended by SystemExit, and no later step of the
\* process changes its board or sends a message.
C10_SendFailureFatal ==
    [][\A p \in Peers : send_error[p] /\ Survives(p) =>
          /\ pc[p] = "exit"
          /\ pc'[p] = "exit"
          /\ board'[p] = board[p]
          /\ nsent'[p] = nsent[p]
          /\ stream'[Other(p)] = stream[Other(p)] \/ ~Survives(Other(p))]_vars

\* C10 witness: a send has failed at a peer, after the cell of the move
\* was written, and its worker thread is still reading the connection.
C10_Witness ==
    \E p \in Peers :
        /\ send_error[p]
        /\ pc[p] = "exit"
        /\ Marked(board[p]) # {}
        /\ rx[p] = "running"

\* C11: closing the window ends the process.  Once main() has returned
\* after a QUIT (the game loop has stopped), the receive worker has stopped
\* too, or can stop now by itself when it has nothing left to read, so that
\* the process ends and its socket closes for the remote peer.
C11_QuitStopsBothTasks ==
    \A p \in Peers : pc[p] = "done" /\ stream[p] = <<>> =>
        \/ rx[p] = "stopped"
        \/ ENABLED (ReceiveLoop(p) /\ rx'[p] = "stopped")

\* the moves on their way to p: written to p's socket or waiting in p's queue
InFlight(p) ==
    [i \in 1 .. Len(stream[p]) |-> stream[p][i][2]] \o queue[p]
\* the cells named by a sequence of moves
CellsOf(moves) == {moves[i] : i \in 1 .. Len(moves)}
\* neither process has been terminated from outside: the connection is up
Connected == \A p \in Peers : pc[p] # "killed"

\* C12: every move sent is applied to the other peer's board exactly once,
\* in the order sent.  While the connection between a Host and a Joiner is
\* up: a recv queues every message it takes from the socket, in order; a
\* message is dequeued only while the receiver waits for the opponent with
\* the game in progress, and the dequeue writes the opponent's mark into the
\* named cell, empty until then; and after every step that changes a board,
\* a socket or a queue, the cells a peer has marked as its own are exactly
\* those the other peer holds for it plus those still on their way, none of
\* them twice.
C12_MovesAppliedOnce ==
    [][Connected' =>
         \A p \in Peers :
            /\ Len(stream'[p]) < Len(stream[p]) =>
                  InFlight(p)' = InFlight(p)
            /\ queue[p] # <<>> /\ queue'[p] = Tail(queue[p]) =>
                  /\ ~is_my_turn[p]
                  /\ winner[p] = None
                  /\ board[p][Head(queue[p])[1]][Head(queue[p])[2]] = None
                  /\ Writes(p, Head(queue[p]), opponent_mark(p))
            /\ board' # board \/ stream' # stream \/ queue' # queue =>
                  LET sent == Holding(board[Other(p)], mark(Other(p)))'
                      applied == Holding(board[p], opponent_mark(p))'
                      moving == InFlight(p)'
                  IN  /\ sent = applied \cup CellsOf(moving)
                      /\ applied \cap CellsOf(moving) = {}
                      /\ Cardinality(CellsOf(moving)) = Len(moving)]_vars

\* C12 witness: a whole game of nine moves has been played over the
\* connection, five sent by the Host and four by the Joiner, and every one
\* of them has been applied by its receiver.
C12_Witness ==
    /\ Connected
    /\ nsent["Host"] = 5
    /\ nsent["Joiner"] = 4
    /\ \A p \in Peers : InFlight(p) = <<>> /\ Marked(board[p]) = Cells

\* the cells in which the two boards differ
Differing == {rc \in Cells : At(board["Host"], rc) # At(board["Joiner"], rc)}

\* C13: the two boards agree.  While the connection between a Host and a
\* Joiner is up, the boards differ in at most one cell: the cell of the one
\* move that is on its way, marked on its sender's board and still empty
\* on its receiver's.  With no move on its way (sockets and queues empty)
\* the boards are equal cell for cell and the peers hold the same winner.
C13_BoardsAgree ==
    Connected =>
        /\ Cardinality(Differing) <= 1
        /\ Differing = CellsOf(InFlight("Host")) \cup CellsOf(InFlight("Joiner"))
        /\ \A p \in Peers : \A rc \in CellsOf(InFlight(p)) :
              /\ At(board[Other(p)], rc) = mark(Other(p))
              /\ At(board[p], rc) = None
        /\ (\A p \in Peers : stream[p] = <<>> /\ queue[p] = <<>>) =>
              /\ board["Host"] = board["Joiner"]
              /\ winner["Host"] = winner["Joiner"]

\* C13 witness: the Host's winning move is on its way.  The boards differ
\* in its cell only, the Host holds winner 'X' and the Joiner still None.
C13_Witness ==
    /\ Connected
    /\ InFlight("Joiner") # <<>>
    /\ Cardinality(Differing) = 1
    /\ winner["Host"] = "X"
    /\ winner["Joiner"] = None

\* C14: turn ownership is mutually exclusive.  While the connection between
\* a Host and a Joiner is up, is_my_turn is never true at both peers; while
\* a move is on its way (sent, not yet applied by its receiver) it is false
\* at both; and at most one move is on its way.
C14_TurnExclusive ==
    Connected =>
        /\ ~(is_my_turn["Host"] /\ is_my_turn["Joiner"])
        /\ (\E p \in Peers : InFlight(p) # <<>>) =>
              \A p \in Peers : ~is_my_turn[p]
        /\ Len(InFlight("Host")) + Len(InFlight("Joiner")) <= 1

\* C14 witness: the Joiner's second move is on its way to the Host, and
\* neither peer has the turn.
C14_Witness ==
    /\ Connected
    /\ nsent["Joiner"] = 2
    /\ InFlight("Host") # <<>>
    /\ \A p \in Peers : ~is_my_turn[p] /\ pc[p] = "loop"

\* board b holds a complete line of three marks m
HasLine(b, m) ==
    \E i \in 1 .. 8 : Complete(b, i) /\ At(b, RefLines[i][1]) = m

\* C15: a board has at most one winner.  No board of a Host or a Joiner
\* running main() holds a complete line of 'X' together with a complete
\* line of 'O'; every complete line of a board holds the mark check_winner
\* returns for it, whichever line is found first.
C15_OneWinner ==
    \A p \in Peers :
        /\ ~(HasLine(board[p], "X") /\ HasLine(board[p], "O"))
        /\ \A i \in 1 .. 8 : Complete(board[p], i) =>
              At(board[p], RefLines[i][1]) = check_winner(board[p])

\* C15 witness: one move has completed two lines of a board at once, so
\* check_winner finds a first complete line and there is a second one.
C15_Witness ==
    \E p \in Peers : \E i \in 1 .. 8 : \E j \in 1 .. 8 :
        /\ i < j
        /\ Complete(board[p], i)
        /\ Complete(board[p], j)
        /\ winner[p] \in {"X", "O"}

\* C16: the stored outcome is the outcome of the current board.  Between
\* the handlers of a peer's game loop, as long as its main thread has not
\* been ended by SystemExit, winner is the outcome of board: it was
\* recomputed after the last move applied, local or received.
C16_WinnerIsCurrent ==
    \A p \in Peers : pc[p] # "exit" =>
        /\ winner[p] = check_winner(board[p])
        /\ winner[p] = RefOutcome(board[p])

\* C16 witness: both game loops are running, one peer holds the outcome
\* computed after its own click and the other the same outcome computed
\* after receiving that move.
C16_Witness ==
    \E p \in Peers :
        /\ pc[p] = "loop"
        /\ pc[Other(p)] = "loop"
        /\ winner[p] = mark(p)
        /\ winner[Other(p)] = mark(p)

\* C17: the game terminates.  Over a connection that stays up, at most nine
\* moves are ever made; and when the peer whose turn it is eventually
\* clicks an empty cell and every message sent is eventually read and
\* dequeued, both peers reach GameOver (winner not None) with the same
\* winner, and stay there.
C17_GameTerminates ==
    /\ [](nsent["Host"] + nsent["Joiner"] <= 9)
    /\ <>[](/\ winner["Host"] # None
            /\ winner["Joiner"] = winner["Host"])

\* C17 witness: the ninth move has been made and applied, and both peers
\* hold the outcome 'Draw'.
C17_Witness ==
    /\ nsent["Host"] + nsent["Joiner"] = 9
    /\ \A p \in Peers : winner[p] = "Draw" /\ InFlight(p) = <<>>

\* the number of 'X' cells of board b minus the number of 'O' cells
Balance(b) == Cardinality(Holding(b, "X")) - Cardinality(Holding(b, "O"))

\* C18: mark counts stay balanced.  On the board of a Host or a Joiner
\* running main() the number of 'X' cells minus the number of 'O' cells is
\* 0 or 1, before and after every step that changes the board (so in every
\* state, the empty board being balanced); a cell set by a local click gets
\* the local mark ('X' at the Host, 'O' at the Joiner) and a cell set from
\* a dequeued message gets the opposite mark.
C18_MarksBalanced ==
    [][\A p \in Peers : Survives(p) =>
          LET local == IF p = "Host" THEN "X" ELSE "O"
              remote == IF p = "Host" THEN "O" ELSE "X"
          IN  board'[p] # board[p] =>
                  /\ Balance(board[p]) \in {0, 1}
                  /\ Balance(board'[p]) \in {0, 1}
                  /\ \E rc \in Cells :
                        /\ At(board[p], rc) = None
                        /\ IF queue'[p] = queue[p]
                           THEN Writes(p, rc, local)
                           ELSE /\ rc = Head(queue[p])
                                /\ Writes(p, rc, remote)]_vars

\* C18 witness: the Joiner's board is full, its four 'O' set by local
\* clicks and its five 'X' set from received messages.
C18_Witness ==
    /\ pc["Joiner"] = "loop"
    /\ nsent["Joiner"] = 4
    /\ Cardinality(Holding(board["Joiner"], "O")) = 4
    /\ Cardinality(Holding(board["Joiner"], "X")) = 5

====
